---- MODULE Spec2Model ----
(***************************************************************************)
(* Navigation engine of the cascade-lattice TUI explorer                   *)
(* (src/cascade/tui.py): the module graph, the NavState breadcrumb, the    *)
(* view derivation of ExplorerScreen and its message handlers.             *)
(*                                                                         *)
(* Two specifications are given.  SpecNav drives one NavState object       *)
(* through its four methods with arbitrary ids.  Spec drives the           *)
(* ExplorerScreen through the user's intents, with the messages the        *)
(* handlers post themselves held in flight until they are delivered.       *)
(***************************************************************************)
EXTENDS Integers, Sequences, FiniteSets, TLC

\* Longest breadcrumb the model explores (appends beyond it are not taken).
MaxPath == 3
\* Most messages posted by handlers that may be in flight at once.
MaxPending == 1

\* Python's None.
None == "<None>"

\* Python truthiness of an Optional[str]: None and "" are falsy.
Truthy(x) == x # None /\ x # ""

(***************************************************************************)
(* MODULE GRAPH                                                            *)
(***************************************************************************)

\* dataclass ModuleNode: the fields the navigation engine reads.  The two
\* documentation texts are long literals; each is modelled by a token naming
\* the field and the node, so that two texts are equal iff they are the same
\* field of the same node.
\* ModuleNode dropping the parent it is given: every node is left with the
\* dataclass default, None.
ModuleNode_without_parent(doc_dummy, doc_scientist, exports, imports_from, imported_by, children, parent) ==
  [doc_dummy |-> doc_dummy, doc_scientist |-> doc_scientist, exports |-> exports,
   imports_from |-> imports_from, imported_by |-> imported_by,
   children |-> children, parent |-> None]

ModuleNode(doc_dummy, doc_scientist, exports, imports_from, imported_by, children, parent) ==
  [doc_dummy |-> doc_dummy, doc_scientist |-> doc_scientist, exports |-> exports,
   imports_from |-> imports_from, imported_by |-> imported_by,
   children |-> children, parent |-> parent]

\* The shipped graph, in the order of the dict literal.
MODULE_GRAPH ==
  \* tui.py:77-144
  ("cascade_lattice" :> ModuleNode("doc_dummy(cascade_lattice)", "doc_scientist(cascade_lattice)",
      <<"Hold", "HoldPoint", "HoldState", "HoldResolution", "Receipt", "Monitor", "SymbioticAdapter", "CausationGraph", "genesis", "observe", "store", "viz", "diagnostics", "forensics">>,
      <<>>,
      <<>>,
      <<"core", "hold", "store", "genesis", "viz", "diagnostics", "forensics">>,
      None)) @@
  \* tui.py:149-209
  ("core" :> ModuleNode("doc_dummy(core)", "doc_scientist(core)",
      <<"Event", "CausationGraph", "ProvenanceChain", "ProvenanceRecord", "SymbioticAdapter", "compute_merkle_root", "hash_tensor">>,
      <<>>,
      <<"hold", "store", "genesis", "diagnostics">>,
      <<"event", "graph", "provenance", "adapter">>,
      "cascade_lattice")) @@
  \* tui.py:211-261
  ("event" :> ModuleNode("doc_dummy(event)", "doc_scientist(event)",
      <<"Event">>,
      <<"provenance">>,
      <<"graph", "adapter", "hold.primitives">>,
      <<>>,
      "core")) @@
  \* tui.py:263-315
  ("graph" :> ModuleNode("doc_dummy(graph)", "doc_scientist(graph)",
      <<"CausationGraph", "CausationChain">>,
      <<"event">>,
      <<"diagnostics", "monitor">>,
      <<>>,
      "core")) @@
  \* tui.py:317-391
  ("provenance" :> ModuleNode("doc_dummy(provenance)", "doc_scientist(provenance)",
      <<"ProvenanceChain", "ProvenanceRecord", "ProvenanceTracker", "compute_merkle_root", "hash_tensor", "hash_params", "hash_input", "hash_model", "verify_chain">>,
      <<>>,
      <<"genesis", "store", "hold.primitives">>,
      <<>>,
      "core")) @@
  \* tui.py:393-454
  ("adapter" :> ModuleNode("doc_dummy(adapter)", "doc_scientist(adapter)",
      <<"SymbioticAdapter", "SignalPattern">>,
      <<"event">>,
      <<"monitor", "hold.session">>,
      <<>>,
      "core")) @@
  \* tui.py:459-531
  ("hold" :> ModuleNode("doc_dummy(hold)", "doc_scientist(hold)",
      <<"Hold", "HoldPoint", "HoldResolution", "HoldState", "HoldAwareMixin">>,
      <<"core.event", "core.provenance">>,
      <<"store", "viz">>,
      <<"hold.primitives", "hold.session">>,
      "cascade_lattice")) @@
  \* tui.py:533-600
  ("hold.primitives" :> ModuleNode("doc_dummy(hold.primitives)", "doc_scientist(hold.primitives)",
      <<"HoldPoint", "HoldState", "HoldResolution">>,
      <<"core.provenance">>,
      <<"hold.session", "viz.tape">>,
      <<>>,
      "hold")) @@
  \* tui.py:602-678
  ("hold.session" :> ModuleNode("doc_dummy(hold.session)", "doc_scientist(hold.session)",
      <<"Hold", "HoldAwareMixin">>,
      <<"hold.primitives", "core.adapter">>,
      <<"store", "brain">>,
      <<>>,
      "hold")) @@
  \* tui.py:683-756
  ("store" :> ModuleNode("doc_dummy(store)", "doc_scientist(store)",
      <<"Receipt", "LocalStore", "observe", "query", "stats", "sync_all", "compute_cid", "data_to_cid", "fetch_receipt">>,
      <<"core.provenance", "genesis">>,
      <<"hold.session", "viz">>,
      <<>>,
      "cascade_lattice")) @@
  \* tui.py:761-841
  ("genesis" :> ModuleNode("doc_dummy(genesis)", "doc_scientist(genesis)",
      <<"create_genesis", "get_genesis_root", "verify_lineage_to_genesis", "link_to_genesis", "ProvenanceChain", "GENESIS_INPUT">>,
      <<"core.provenance">>,
      <<"store">>,
      <<>>,
      "cascade_lattice")) @@
  \* tui.py:846-910
  ("viz" :> ModuleNode("doc_dummy(viz)", "doc_scientist(viz)",
      <<"PlaybackBuffer", "PlaybackEvent", "create_tape_path", "write_tape_event", "load_tape_file", "list_tape_files">>,
      <<"hold.primitives">>,
      <<>>,
      <<"viz.tape">>,
      "cascade_lattice")) @@
  \* tui.py:915-980
  ("diagnostics" :> ModuleNode("doc_dummy(diagnostics)", "doc_scientist(diagnostics)",
      <<"BugDetector", "DiagnosticEngine", "ExecutionMonitor", "BugPattern", "BugSignature", "DetectedIssue", "DiagnosticReport">>,
      <<"core.graph">>,
      <<>>,
      <<"diagnostics.bug_detector", "diagnostics.execution_monitor">>,
      "cascade_lattice")) @@
  \* tui.py:985-1046
  ("forensics" :> ModuleNode("doc_dummy(forensics)", "doc_scientist(forensics)",
      <<"DataForensics", "TechFingerprinter", "ArtifactDetector", "Fingerprint", "ForensicsReport", "GhostLog">>,
      <<>>,
      <<>>,
      <<"forensics.analyzer", "forensics.fingerprints", "forensics.artifacts">>,
      "cascade_lattice")) @@
  \* tui.py:1051-1093
  ("listen" :> ModuleNode("doc_dummy(listen)", "doc_scientist(listen)",
      <<"event_queue", "Monitor">>,
      <<"core.event">>,
      <<>>,
      <<>>,
      "cascade_lattice")) @@
  \* tui.py:1098-1154
  ("monitor" :> ModuleNode("doc_dummy(monitor)", "doc_scientist(monitor)",
      <<"Monitor">>,
      <<"core.graph", "core.adapter", "core.event">>,
      <<"hold.session", "store">>,
      <<>>,
      "cascade_lattice"))

\* MODULE_GRAPH.get(key) is truthy: the key names a node.
Resolves(key) == key \in DOMAIN MODULE_GRAPH

\* MODULE_GRAPH.get(key), for a key that resolves.
Get(key) == MODULE_GRAPH[key]

(***************************************************************************)
(* Python list primitives, with the exceptions they raise                  *)
(***************************************************************************)

\* x in s
Contains(s, x) == \E i \in 1..Len(s) : s[i] = x

\* s.index(x): the 0-based position of the first occurrence; -1 stands for
\* the ValueError raised when x does not occur.
ListIndex(s, x) ==
  IF Contains(s, x)
    THEN (CHOOSE i \in 1..Len(s) : s[i] = x /\ \A j \in 1..(i - 1) : s[j] # x) - 1
    ELSE -1

\* s[:n] for n >= 0
Slice(s, n) == SubSeq(s, 1, IF n < Len(s) THEN n ELSE Len(s))

\* s.pop(): removes and returns the last element; IndexError on an empty list.
ListPop(s) ==
  IF Len(s) = 0
    THEN [list |-> s, ret |-> None, raised |-> TRUE]
    ELSE [list |-> SubSeq(s, 1, Len(s) - 1), ret |-> s[Len(s)], raised |-> FALSE]

(***************************************************************************)
(* NAVIGATION STATE                                                        *)
(***************************************************************************)

\* NavState(): path defaults to ["cascade_lattice"].
NavState == [path |-> <<"cascade_lattice">>]

\* The outcome of a method call: the object afterwards, the value returned
\* and whether an exception escaped.
Outcome(self, ret, raised) == [self |-> self, ret |-> ret, raised |-> raised]

\* current answering the first element of path in the place of the last.
current_first(self) ==
  IF self.path # <<>> THEN self.path[1] ELSE "cascade_lattice"

\* NavState.current
current(self) ==
  IF Len(self.path) > 0 THEN self.path[Len(self.path)] ELSE "cascade_lattice"

\* push with the membership test narrowed to the last element.
push_checks_last_only(self, module) ==
  IF Len(self.path) = 0 \/ self.path[Len(self.path)] # module
    THEN Outcome([self EXCEPT !.path = Append(self.path, module)], None, FALSE)
    ELSE Outcome(self, None, FALSE)

\* NavState.push
push(self, module) ==
  IF ~Contains(self.path, module)
    THEN Outcome([self EXCEPT !.path = Append(self.path, module)], None, FALSE)
    ELSE Outcome(self, None, FALSE)

\* pop with the guard len(path) > 0: the root may be popped away.
pop_guard_nonempty(self) ==
  IF Len(self.path) > 0
    THEN LET r == ListPop(self.path)
         IN  Outcome([self EXCEPT !.path = r.list], r.ret, r.raised)
    ELSE Outcome(self, None, FALSE)

\* pop written as path.pop(0): removes and returns the first element.
pop_first(self) ==
  IF Len(self.path) > 1
    THEN Outcome([self EXCEPT !.path = Tail(self.path)], Head(self.path), FALSE)
    ELSE Outcome(self, None, FALSE)

\* NavState.pop
pop(self) ==
  IF Len(self.path) > 1
    THEN LET r == ListPop(self.path)
         IN  Outcome([self EXCEPT !.path = r.list], r.ret, r.raised)
    ELSE Outcome(self, None, FALSE)

\* jump_to without the revisit branch: every destination is appended.
jump_to_always_appends(self, module) ==
  Outcome([self EXCEPT !.path = Append(self.path, module)], None, FALSE)

\* jump_to trimming with path[:idx]: the revisited node itself is cut off.
jump_to_slice_off_by_one(self, module) ==
  IF Contains(self.path, module)
    THEN LET idx == ListIndex(self.path, module)
         IN  IF idx < 0
               THEN Outcome(self, None, TRUE)
               ELSE Outcome([self EXCEPT !.path = Slice(self.path, idx)], None, FALSE)
    ELSE Outcome([self EXCEPT !.path = Append(self.path, module)], None, FALSE)

\* jump_to without the else branch: a new destination is not recorded.
jump_to_drops_new(self, module) ==
  IF Contains(self.path, module)
    THEN LET idx == ListIndex(self.path, module)
         IN  IF idx < 0
               THEN Outcome(self, None, TRUE)
               ELSE Outcome([self EXCEPT !.path = Slice(self.path, idx + 1)], None, FALSE)
    ELSE Outcome(self, None, FALSE)

\* jump_to calling path.index without testing membership first.
jump_to_unchecked_index(self, module) ==
  LET idx == ListIndex(self.path, module)
  IN  IF idx < 0
        THEN Outcome(self, None, TRUE)
        ELSE Outcome([self EXCEPT !.path = Slice(self.path, idx + 1)], None, FALSE)

\* NavState.jump_to
jump_to(self, module) ==
  IF Contains(self.path, module)
    THEN LET idx == ListIndex(self.path, module)
         IN  IF idx < 0
               THEN Outcome(self, None, TRUE)
               ELSE Outcome([self EXCEPT !.path = Slice(self.path, idx + 1)], None, FALSE)
    ELSE Outcome([self EXCEPT !.path = Append(self.path, module)], None, FALSE)

\* reset clearing the list instead of re-seeding it with the root.
reset_clears(self) == Outcome([self EXCEPT !.path = <<>>], None, FALSE)

\* NavState.reset
reset(self) == Outcome([self EXCEPT !.path = <<"cascade_lattice">>], None, FALSE)

(***************************************************************************)
(* VIEW DERIVATION                                                         *)
(***************************************************************************)

RECURSIVE add_children(_), add_each(_, _), add_each_unfiltered(_, _)

\* The loop of add_children without the test `if child`: a child id that
\* names no node gets a tree node too.
add_each_unfiltered(keys, parent_key) ==
  IF keys = <<>>
    THEN <<>>
    ELSE <<[data |-> Head(keys), parent |-> parent_key]>>
           \o add_children(Head(keys))
           \o add_each_unfiltered(Tail(keys), parent_key)

RECURSIVE add_each_flat(_, _)

\* The loop of add_children without the recursive call: only the children
\* of the root get a node.
add_each_flat(keys, parent_key) ==
  IF keys = <<>>
    THEN <<>>
    ELSE (IF Resolves(Head(keys))
            THEN <<[data |-> Head(keys), parent |-> parent_key]>>
            ELSE <<>>)
           \o add_each_flat(Tail(keys), parent_key)

\* The loop of add_children over node.children: each child that resolves is
\* added under the parent, followed by its own subtree.  A tree node is
\* recorded as its data (the module key) and the data of the node it hangs
\* under; the sequence is the order in which the nodes are added.
add_each(keys, parent_key) ==
  IF keys = <<>>
    THEN <<>>
    ELSE (IF Resolves(Head(keys))
            THEN <<[data |-> Head(keys), parent |-> parent_key]>>
                   \o add_children(Head(keys))
            ELSE <<>>)
           \o add_each(Tail(keys), parent_key)

\* ExplorerScreen._build_tree.add_children
add_children(parent_key) ==
  IF ~Resolves(parent_key) THEN <<>> ELSE add_each(Get(parent_key).children, parent_key)

\* ExplorerScreen._build_tree: the tree is cleared and rebuilt from the root.
_build_tree ==
  IF Resolves("cascade_lattice")
    THEN <<[data |-> "cascade_lattice", parent |-> None]>> \o add_children("cascade_lattice")
    ELSE <<[data |-> None, parent |-> None]>>

\* The module keys held as data by the nodes of a tree.
TreeData(t) == {t[i].data : i \in DOMAIN t}

\* ExplorerScreen._select_in_tree.find_node: whether a node with this data
\* exists in the tree.
find_node(t, key) == \E i \in DOMAIN t : t[i].data = key

\* _select_in_tree adding a node for a key the tree does not hold.
_select_in_tree_adds_missing(t, cursor, module_key) ==
  IF find_node(t, module_key)
    THEN [tree |-> t, cursor |-> module_key, selected |-> TRUE]
    ELSE [tree |-> Append(t, [data |-> module_key, parent |-> "cascade_lattice"]),
          cursor |-> module_key, selected |-> TRUE]

\* ExplorerScreen._select_in_tree: the tree and its cursor after the call,
\* and whether tree.select_node was called.  The node found is expanded and
\* the cursor moves to it; no node is added or removed.
_select_in_tree(t, cursor, module_key) ==
  IF find_node(t, module_key)
    THEN [tree |-> t, cursor |-> module_key, selected |-> TRUE]
    ELSE [tree |-> t, cursor |-> cursor, selected |-> FALSE]

RECURSIVE mount_each_in(_, _, _, _)

\* The loop without the test against added_keys.
mount_each_no_dedupe(graph, keys, variant, buttons) ==
  IF keys = <<>>
    THEN buttons
    ELSE mount_each_in(graph, Tail(keys), variant,
           IF Head(keys) \in DOMAIN graph
             THEN Append(buttons, [tooltip |-> Head(keys), variant |-> variant])
             ELSE buttons)

\* One loop of _rebuild_buttons, reading the module graph `graph`: a key not
\* yet in added_keys whose node resolves gets a button, with the key as
\* tooltip.  added_keys holds exactly the tooltips of the buttons mounted so
\* far.
mount_each_in(graph, keys, variant, buttons) ==
  IF keys = <<>>
    THEN buttons
    ELSE LET key == Head(keys)
             added_keys == {buttons[i].tooltip : i \in DOMAIN buttons}
         IN  mount_each_in(graph, Tail(keys), variant,
               IF key \notin added_keys /\ key \in DOMAIN graph
                 THEN Append(buttons, [tooltip |-> key, variant |-> variant])
                 ELSE buttons)

\* The loop over the shipped MODULE_GRAPH.
mount_each(keys, variant, buttons) == mount_each_in(MODULE_GRAPH, keys, variant, buttons)

\* _rebuild_buttons with the imported_by loop placed before the imports_from
\* loop.
rebuild_buttons_imported_by_first(graph, module_key) ==
  IF module_key \notin DOMAIN graph
    THEN <<>>
    ELSE LET node == graph[module_key]
             parent_btn == IF Truthy(node.parent) /\ node.parent \in DOMAIN graph
                             THEN <<[tooltip |-> node.parent, variant |-> "default"]>>
                             ELSE <<>>
             with_children == mount_each_in(graph, node.children, "primary", parent_btn)
             with_users == mount_each_in(graph, Slice(node.imported_by, 3), "warning",
                                         with_children)
         IN  mount_each_in(graph, Slice(node.imports_from, 3), "success", with_users)

\* RelatedModulesPanel._rebuild_buttons, reading the module graph `graph`:
\* the buttons mounted for module_key, in mounting order.
rebuild_buttons_in(graph, module_key) ==
  IF module_key \notin DOMAIN graph
    THEN <<>>
    ELSE LET node == graph[module_key]
             parent_btn == IF Truthy(node.parent) /\ node.parent \in DOMAIN graph
                             THEN <<[tooltip |-> node.parent, variant |-> "default"]>>
                             ELSE <<>>
             with_children == mount_each_in(graph, node.children, "primary", parent_btn)
             with_imports == mount_each_in(graph, Slice(node.imports_from, 3), "success",
                                           with_children)
         IN  mount_each_in(graph, Slice(node.imported_by, 3), "warning", with_imports)

\* RelatedModulesPanel._rebuild_buttons over the shipped MODULE_GRAPH.
_rebuild_buttons(module_key) == rebuild_buttons_in(MODULE_GRAPH, module_key)

\* The tooltips of a sequence of buttons.
Tooltips(buttons) == {buttons[i].tooltip : i \in DOMAIN buttons}

\* The panels as the widgets are constructed, before on_mount.
ComposedPanels ==
  [breadcrumb_path |-> <<"cascade_lattice">>,
   doc_content |-> "",
   related_module_key |-> "cascade_lattice",
   related_buttons |-> _rebuild_buttons("cascade_lattice"),
   exports_module_key |-> "cascade_lattice"]

\* _update_view with the two documentation fields exchanged.
_update_view_modes_swapped(module, scientist, navstate, old) ==
  IF ~Resolves(module)
    THEN old
    ELSE [breadcrumb_path |-> navstate.path,
          doc_content |-> IF scientist THEN Get(module).doc_dummy
                                       ELSE Get(module).doc_scientist,
          related_module_key |-> module,
          related_buttons |-> _rebuild_buttons(module),
          exports_module_key |-> module]

\* _update_view mounting the related buttons onto those already shown, the
\* container not being emptied first.
_update_view_keeps_buttons(module, scientist, navstate, old) ==
  IF ~Resolves(module)
    THEN old
    ELSE [breadcrumb_path |-> navstate.path,
          doc_content |-> IF scientist THEN Get(module).doc_scientist
                                       ELSE Get(module).doc_dummy,
          related_module_key |-> module,
          related_buttons |-> old.related_buttons \o _rebuild_buttons(module),
          exports_module_key |-> module]

\* ExplorerScreen._update_view: the panels after the call, given the
\* screen's current_module and scientist_mode, the global NavState and the
\* panels before.  Assigning related-panel.module_key runs its watcher, which
\* rebuilds the buttons.
_update_view(module, scientist, navstate, old) ==
  IF ~Resolves(module)
    THEN old
    ELSE [breadcrumb_path |-> navstate.path,
          doc_content |-> IF scientist THEN Get(module).doc_scientist
                                       ELSE Get(module).doc_dummy,
          related_module_key |-> module,
          related_buttons |-> _rebuild_buttons(module),
          exports_module_key |-> module]

(***************************************************************************)
(* Widget rendering                                                        *)
(***************************************************************************)

\* ModuleNode.icon of every node of the shipped graph; each emoji is
\* modelled by its name.  The dataclass default, used by no shipped node, is
\* the package emoji.
icon ==
  ("cascade_lattice" :> "globe") @@ ("core" :> "gear") @@ ("event" :> "bar chart") @@
  ("graph" :> "spider web") @@ ("provenance" :> "locked with key") @@
  ("adapter" :> "handshake") @@ ("hold" :> "pause") @@ ("hold.primitives" :> "brick") @@
  ("hold.session" :> "joystick") @@ ("store" :> "floppy disk") @@
  ("genesis" :> "sunrise") @@ ("viz" :> "clapper board") @@
  ("diagnostics" :> "microscope") @@ ("forensics" :> "magnifying glass right") @@
  ("listen" :> "ear") @@ ("monitor" :> "satellite antenna")

\* One text.append of BreadcrumbWidget.render: what it appends and its style.
\* An entry is the f-string "{icon} {module}", kept as its two parts.
Crumb(kind, ic, label, style) == [kind |-> kind, icon |-> ic, label |-> label, style |-> style]

RECURSIVE breadcrumb_each(_, _, _), breadcrumb_each_unchecked(_, _, _)

\* The loop of BreadcrumbWidget.render reading node.icon without the test
\* for a missing node: None has no attribute icon.
breadcrumb_each_unchecked(path, i, text) ==
  IF i > Len(path)
    THEN [text |-> text, raised |-> FALSE]
    ELSE IF ~Resolves(path[i])
      THEN [text |-> text, raised |-> TRUE]
      ELSE breadcrumb_each_unchecked(path, i + 1,
             text \o (IF i > 1 THEN <<Crumb("separator", None, None, "dim")>> ELSE <<>>)
                  \o <<Crumb("entry", icon[path[i]], path[i],
                             IF i = Len(path) THEN "bold cyan" ELSE "blue underline")>>)

\* The loop of BreadcrumbWidget.render from the i-th element of path on
\* (i counts from 1), `text` being what has been appended so far.
breadcrumb_each(path, i, text) ==
  IF i > Len(path)
    THEN [text |-> text, raised |-> FALSE]
    ELSE LET module == path[i]
             ic == IF Resolves(module) THEN icon[module] ELSE "package"
         IN  breadcrumb_each(path, i + 1,
               text \o (IF i > 1 THEN <<Crumb("separator", None, None, "dim")>> ELSE <<>>)
                    \o <<Crumb("entry", ic, module,
                               IF i = Len(path) THEN "bold cyan" ELSE "blue underline")>>)

\* BreadcrumbWidget.render for a widget whose path is `path`.
BreadcrumbWidget_render(path) ==
  breadcrumb_each(path, 1, <<Crumb("pin", None, None, "bold")>>)

\* Export names of the shipped graph whose first character is upper case.
UpperInitial ==
  {"ArtifactDetector", "BugDetector", "BugPattern", "BugSignature", "CausationChain",
   "CausationGraph", "DataForensics", "DetectedIssue", "DiagnosticEngine",
   "DiagnosticReport", "Event", "ExecutionMonitor", "Fingerprint", "ForensicsReport",
   "GENESIS_INPUT", "GhostLog", "Hold", "HoldAwareMixin", "HoldPoint", "HoldResolution",
   "HoldState", "LocalStore", "Monitor", "PlaybackBuffer", "PlaybackEvent",
   "ProvenanceChain", "ProvenanceRecord", "ProvenanceTracker", "Receipt",
   "SignalPattern", "SymbioticAdapter", "TechFingerprinter"}

\* One line of ExportsPanel.render: its bullet, the export it names, what
\* the f-string puts after the name, and the style of the name.
ExportLine(kind, bullet, name, suffix, style) ==
  [kind |-> kind, bullet |-> bullet, name |-> name, suffix |-> suffix, style |-> style]

RECURSIVE exports_each(_, _, _), exports_each_classes_only(_, _, _)

\* The loop of ExportsPanel.render listing only the names it takes for
\* classes.
exports_each_classes_only(exports, i, text) ==
  IF i > Len(exports)
    THEN [text |-> text, raised |-> FALSE]
    ELSE IF exports[i] = ""
      THEN [text |-> text, raised |-> TRUE]
      ELSE exports_each_classes_only(exports, i + 1,
             IF exports[i] \in UpperInitial
               THEN Append(text, ExportLine("export", "filled", exports[i], "", "bold cyan"))
               ELSE text)

\* The loop of ExportsPanel.render from the i-th export on.  exp[0] raises
\* IndexError for an empty name.
exports_each(exports, i, text) ==
  IF i > Len(exports)
    THEN [text |-> text, raised |-> FALSE]
    ELSE IF exports[i] = ""
      THEN [text |-> text, raised |-> TRUE]
      ELSE exports_each(exports, i + 1,
             Append(text,
               IF exports[i] \in UpperInitial
                 THEN ExportLine("export", "filled", exports[i], "", "bold cyan")
                 ELSE ExportLine("export", "hollow", exports[i], "()", "yellow")))

\* ExportsPanel.render for a panel whose module_key is `module_key`, over the
\* module graph `graph`.
ExportsPanel_render_in(graph, module_key) ==
  IF module_key \notin DOMAIN graph \/ graph[module_key].exports = <<>>
    THEN [text |-> <<ExportLine("plain", None, "No exports", "", None)>>, raised |-> FALSE]
    ELSE exports_each(graph[module_key].exports, 1,
                      <<ExportLine("header", None, "EXPORTS", "", "bold green")>>)

\* ExportsPanel.render over the shipped MODULE_GRAPH.
ExportsPanel_render(module_key) == ExportsPanel_render_in(MODULE_GRAPH, module_key)

(***************************************************************************)
(* Tree building over an arbitrary graph definition                        *)
(***************************************************************************)

\* Depth of nested add_children calls at which Python raises RecursionError.
\* The interpreter's limit is 1000; any limit above the number of nodes tells
\* a cycle from a finite expansion, and the model uses a small one.
RecursionLimit == 4

RECURSIVE add_children_in(_, _, _), add_each_in(_, _, _, _)

\* The loop of add_children over the graph definition `graph`, at call depth
\* `depth`: the nodes added, and whether RecursionError was raised.
add_each_in(graph, keys, parent_key, depth) ==
  IF keys = <<>>
    THEN [nodes |-> <<>>, raised |-> FALSE]
    ELSE LET child_key == Head(keys)
         IN  IF child_key \notin DOMAIN graph
               THEN add_each_in(graph, Tail(keys), parent_key, depth)
               ELSE LET sub == add_children_in(graph, child_key, depth + 1)
                    IN  IF sub.raised
                          THEN [nodes |-> <<>>, raised |-> TRUE]
                          ELSE LET rest == add_each_in(graph, Tail(keys), parent_key, depth)
                               IN  [nodes |-> <<[data |-> child_key, parent |-> parent_key]>>
                                              \o sub.nodes \o rest.nodes,
                                    raised |-> rest.raised]

\* add_children(parent_node, parent_key) over `graph`, at call depth `depth`.
add_children_in(graph, parent_key, depth) ==
  IF depth > RecursionLimit
    THEN [nodes |-> <<>>, raised |-> TRUE]
    ELSE IF parent_key \notin DOMAIN graph
      THEN [nodes |-> <<>>, raised |-> FALSE]
      ELSE add_each_in(graph, graph[parent_key].children, parent_key, depth)

\* ExplorerScreen._build_tree over `graph`.  The Tree widget is composed with
\* a root node that holds no data; the root is given its data only when the
\* graph has the key cascade_lattice.
_build_tree_in(graph) ==
  IF "cascade_lattice" \notin DOMAIN graph
    THEN [nodes |-> <<[data |-> None, parent |-> None]>>, raised |-> FALSE]
    ELSE LET sub == add_children_in(graph, "cascade_lattice", 1)
         IN  [nodes |-> <<[data |-> "cascade_lattice", parent |-> None]>> \o sub.nodes,
              raised |-> sub.raised]

(***************************************************************************)
(* Lookups in the graph store                                              *)
(***************************************************************************)

\* dict.setdefault in the place of dict.get: the dict after the call, a
\* missing key being inserted with a default node and a present key keeping
\* its node.
dict_setdefault(graph, key) ==
  graph @@ (key :> ModuleNode("", "", <<>>, <<>>, <<>>, <<>>, None))

\* MODULE_GRAPH.get(key): the dict after the call.  get returns the node or
\* None and inserts nothing.
dict_get(graph, key) == graph

RECURSIVE get_each(_, _)
\* The dict after MODULE_GRAPH.get has been called for each of keys in turn.
get_each(graph, keys) ==
  IF keys = <<>>
    THEN graph
    ELSE LET after == dict_get(graph, Head(keys))
         IN  get_each(after, Tail(keys))

RECURSIVE tree_lookups(_), tree_lookups_each(_)
\* Keys _build_tree's add_children looks up for the children in `keys`.
tree_lookups_each(keys) ==
  IF keys = <<>>
    THEN <<>>
    ELSE <<Head(keys)>>
         \o (IF Resolves(Head(keys)) THEN tree_lookups(Head(keys)) ELSE <<>>)
         \o tree_lookups_each(Tail(keys))

\* Keys add_children(parent_node, parent_key) looks up, in call order.
tree_lookups(parent_key) ==
  <<parent_key>>
  \o (IF Resolves(parent_key) THEN tree_lookups_each(Get(parent_key).children) ELSE <<>>)

\* Keys _build_tree looks up: the root, then add_children from the root.
_build_tree_lookups == <<"cascade_lattice">> \o tree_lookups("cascade_lattice")

RECURSIVE related_lookups_each(_, _)
\* Keys the loops of _rebuild_buttons look up among `keys`: a key already in
\* added_keys is not looked up, a key that resolves joins added_keys.
related_lookups_each(keys, added_keys) ==
  IF keys = <<>>
    THEN <<>>
    ELSE IF Head(keys) \in added_keys
      THEN related_lookups_each(Tail(keys), added_keys)
      ELSE <<Head(keys)>>
           \o related_lookups_each(Tail(keys),
                IF Resolves(Head(keys)) THEN added_keys \cup {Head(keys)} ELSE added_keys)

\* Keys _rebuild_buttons looks up for a panel whose module_key is given.
_rebuild_buttons_lookups(module_key) ==
  <<module_key>>
  \o (IF ~Resolves(module_key)
        THEN <<>>
        ELSE LET node == Get(module_key)
             IN  related_lookups_each(
                   (IF Truthy(node.parent) THEN <<node.parent>> ELSE <<>>)
                   \o node.children \o Slice(node.imports_from, 3)
                   \o Slice(node.imported_by, 3), {}))

\* Keys looked up by _update_view and by the widgets it refreshes: the
\* current module, every element of the breadcrumb, the related panel's
\* keys, and the exports panel's module.
_update_view_lookups(module, navstate) ==
  <<module>>
  \o (IF ~Resolves(module)
        THEN <<>>
        ELSE navstate.path \o _rebuild_buttons_lookups(module) \o <<module>>)

(***************************************************************************)
(* State                                                                   *)
(***************************************************************************)

VARIABLES
  nav,        \* a NavState object driven directly through its methods
  before,     \* that object as it was when the last method was called
  call,       \* the last method called on it and its argument
  ret,        \* what that call returned
  raised      \* whether that call raised

VARIABLES
  _nav,            \* the global NavState the screen navigates with
  current_module,  \* ExplorerScreen.current_module
  scientist_mode,  \* ExplorerScreen.scientist_mode
  switch_value,    \* value of the #mode-toggle Switch
  panels,          \* what _update_view last put into the four panels
  tree,            \* nodes of the #module-tree Tree
  tree_cursor,     \* data of the tree node last selected, None before any
  pending,         \* messages posted by handlers and not yet delivered
  handler,         \* the handler that ran last
  popped,          \* what _nav.pop() returned in the last action_go_back
  error,           \* whether a NavState call made by a handler raised
  graph            \* the dict object MODULE_GRAPH names

VARIABLES
  related_test,    \* a module graph, a key, and the buttons derived for it
  start_test,      \* a graph definition and the explorer started over it
  live_stats,      \* the LiveStatsWidget: its _stats attribute
  reach_test,      \* an explorer's current module and every module it has shown
  render_test      \* a breadcrumb widget, an exports panel, and what they render

nav_vars == <<nav, before, call, ret, raised>>

ui_vars == <<_nav, current_module, scientist_mode, switch_value, panels, tree,
             tree_cursor, pending, handler, popped, error, graph>>

test_vars == <<related_test, start_test, live_stats, reach_test, render_test>>

vars == <<nav, before, call, ret, raised, _nav, current_module, scientist_mode,
          switch_value, panels, tree, tree_cursor, pending, handler, popped, error,
          graph, related_test, start_test, live_stats, reach_test, render_test>>

\* Ids passed to the methods: the root, three graph keys, and a dangling
\* reference of the graph (viz.children names it, no node has that key).
NavIds == {"cascade_lattice", "core", "hold", "event", "viz.tape"}

NoCall == [op |-> "init", arg |-> None]

InitNav ==
  /\ nav = NavState
  /\ before = NavState
  /\ call = NoCall
  /\ ret = None
  /\ raised = FALSE

\* One method call on nav, recorded.  A call that raised leaves the object
\* to the handler of the exception; the model stops driving it.
Called(op, arg, r) ==
  /\ UNCHANGED <<ui_vars, test_vars>>
  /\ ~raised
  /\ Len(r.self.path) <= MaxPath
  /\ nav' = r.self
  /\ before' = nav
  /\ call' = [op |-> op, arg |-> arg]
  /\ ret' = r.ret
  /\ raised' = r.raised

CallPush == \E m \in NavIds : Called("push", m, push(nav, m))

CallPop == Called("pop", None, pop(nav))

CallJumpTo == \E m \in NavIds : Called("jump_to", m, jump_to(nav, m))

CallReset == Called("reset", None, reset(nav))

(***************************************************************************)
(* EXPLORER SCREEN                                                         *)
(***************************************************************************)

\* Module keys the user tries in the tree and in the related panel; a key is
\* acted on only where the widget offers it.  cascade_lattice, core and hold
\* are tree nodes, adapter offers the button to monitor, which is no tree
\* node, and viz.tape is a child id of viz that names no node.
InputKeys == {"cascade_lattice", "core", "hold", "adapter", "monitor", "viz.tape"}

ModuleClicked(module_key) == [type |-> "ModuleClicked", module_key |-> module_key]

NodeSelected(data) == [type |-> "NodeSelected", data |-> data]

SwitchChanged(value) == [type |-> "SwitchChanged", value |-> value]

\* The screen after compose and on_mount (_build_tree, then _update_view).
InitUI ==
  /\ _nav = NavState
  /\ current_module = "cascade_lattice"
  /\ scientist_mode = FALSE
  /\ switch_value = FALSE
  /\ tree = _build_tree
  /\ tree_cursor = None
  /\ panels = _update_view("cascade_lattice", FALSE, NavState, ComposedPanels)
  /\ pending = <<>>
  /\ handler = "on_mount"
  /\ popped = None
  /\ error = FALSE
  /\ graph = get_each(MODULE_GRAPH,
                      _build_tree_lookups \o _update_view_lookups("cascade_lattice", NavState))

\* pending without its i-th message.
Without(i) == SubSeq(pending, 1, i - 1) \o SubSeq(pending, i + 1, Len(pending))

\* Messages of one type come from one widget and are delivered in the order
\* posted; messages of different types travel through different widgets and
\* may overtake each other.
Deliverable(i) == \A j \in 1..(i - 1) : pending[j].type # pending[i].type

\* ExplorerScreen.on_tree_select, for a NodeSelected event whose node holds
\* `data`; `queue` is what remains in flight.
on_tree_select(data, queue) ==
  /\ handler' = "on_tree_select"
  /\ pending' = queue
  /\ UNCHANGED <<scientist_mode, switch_value, tree, popped>>
  /\ IF Truthy(data)
       THEN LET r == jump_to(_nav, data)
            IN  /\ Len(r.self.path) <= MaxPath
                /\ _nav' = r.self
                /\ error' = r.raised
                /\ current_module' = data
                /\ panels' = _update_view(data, scientist_mode, r.self, panels)
                /\ graph' = get_each(graph, _update_view_lookups(data, r.self))
       ELSE UNCHANGED <<_nav, error, current_module, panels, graph>>

\* The user selects a node of the tree: the cursor moves to it and the
\* Tree.NodeSelected event reaches on_tree_select.
SelectTreeNode ==
  \E key \in InputKeys \cap TreeData(tree) :
    /\ tree_cursor' = key
    /\ on_tree_select(key, pending)
    /\ UNCHANGED <<nav_vars, test_vars>>

\* RelatedModulesPanel.on_button_pressed: the user presses one of the buttons
\* the related panel shows; the key is read from its tooltip.
on_button_pressed ==
  \E key \in InputKeys \cap Tooltips(panels.related_buttons) :
    /\ Len(pending) < MaxPending
    /\ handler' = "on_button_pressed"
    /\ pending' = IF Truthy(key) /\ key \in DOMAIN MODULE_GRAPH
                    THEN Append(pending, ModuleClicked(key))
                    ELSE pending
    /\ UNCHANGED <<_nav, current_module, scientist_mode, switch_value, panels,
                   tree, tree_cursor, popped, error, graph>>
    /\ UNCHANGED <<nav_vars, test_vars>>

\* ExplorerScreen.on_related_clicked, with _select_in_tree: when the tree
\* holds a node for the key it is expanded and tree.select_node moves the
\* cursor to it.  Whether select_node also posts Tree.NodeSelected is the
\* widget library's choice and differs between its releases: both happen.
on_related_clicked ==
  \E i \in DOMAIN pending, posts \in BOOLEAN :
    /\ pending[i].type = "ModuleClicked"
    /\ Deliverable(i)
    /\ LET module_key == pending[i].module_key
           r == jump_to(_nav, module_key)
       IN  /\ Len(r.self.path) <= MaxPath
           /\ handler' = "on_related_clicked"
           /\ _nav' = r.self
           /\ error' = r.raised
           /\ current_module' = module_key
           /\ panels' = _update_view(module_key, scientist_mode, r.self, panels)
           /\ graph' = get_each(graph, _update_view_lookups(module_key, r.self))
           /\ LET s == _select_in_tree(tree, tree_cursor, module_key)
              IN  /\ tree' = s.tree
                  /\ tree_cursor' = s.cursor
                  /\ posts => s.selected
                  /\ pending' = IF posts THEN Append(Without(i), NodeSelected(module_key))
                                         ELSE Without(i)
    /\ UNCHANGED <<scientist_mode, switch_value, popped>>
    /\ UNCHANGED <<nav_vars, test_vars>>

\* Delivery of the Tree.NodeSelected that tree.select_node posted.
DeliverNodeSelected ==
  \E i \in DOMAIN pending :
    /\ pending[i].type = "NodeSelected"
    /\ Deliverable(i)
    /\ on_tree_select(pending[i].data, Without(i))
    /\ UNCHANGED tree_cursor
    /\ UNCHANGED <<nav_vars, test_vars>>

\* on_mode_toggle ignoring event.value: the mode is set, never cleared.
on_mode_toggle_sets_true ==
  \E i \in DOMAIN pending :
    /\ pending[i].type = "SwitchChanged"
    /\ Deliverable(i)
    /\ handler' = "on_mode_toggle"
    /\ scientist_mode' = TRUE
    /\ panels' = _update_view(current_module, TRUE, _nav, panels)
    /\ graph' = get_each(graph, _update_view_lookups(current_module, _nav))
    /\ pending' = Without(i)
    /\ UNCHANGED <<_nav, current_module, switch_value, tree, tree_cursor, popped, error>>
    /\ UNCHANGED <<nav_vars, test_vars>>

\* ExplorerScreen.on_mode_toggle, for the Switch.Changed of #mode-toggle.
on_mode_toggle ==
  \E i \in DOMAIN pending :
    /\ pending[i].type = "SwitchChanged"
    /\ Deliverable(i)
    /\ handler' = "on_mode_toggle"
    /\ scientist_mode' = pending[i].value
    /\ panels' = _update_view(current_module, pending[i].value, _nav, panels)
    /\ graph' = get_each(graph, _update_view_lookups(current_module, _nav))
    /\ pending' = Without(i)
    /\ UNCHANGED <<_nav, current_module, switch_value, tree, tree_cursor, popped, error>>
    /\ UNCHANGED <<nav_vars, test_vars>>

\* action_go_back without its call of _update_view: the path shrinks, the
\* panels keep what they showed.
action_go_back_without_update ==
  LET r == pop(_nav)
  IN  /\ handler' = "action_go_back"
      /\ _nav' = r.self
      /\ popped' = r.ret
      /\ error' = r.raised
      /\ IF Truthy(r.ret)
           THEN /\ current_module' = current(r.self)
                /\ UNCHANGED <<panels, graph>>
           ELSE UNCHANGED <<current_module, panels, graph>>
      /\ UNCHANGED <<scientist_mode, switch_value, tree, tree_cursor, pending>>
      /\ UNCHANGED <<nav_vars, test_vars>>

\* ExplorerScreen.action_go_back
action_go_back ==
  LET r == pop(_nav)
  IN  /\ handler' = "action_go_back"
      /\ _nav' = r.self
      /\ popped' = r.ret
      /\ error' = r.raised
      /\ IF Truthy(r.ret)
           THEN /\ current_module' = current(r.self)
                /\ panels' = _update_view(current(r.self), scientist_mode, r.self, panels)
                /\ graph' = get_each(graph, _update_view_lookups(current(r.self), r.self))
           ELSE UNCHANGED <<current_module, panels, graph>>
      /\ UNCHANGED <<scientist_mode, switch_value, tree, tree_cursor, pending>>
      /\ UNCHANGED <<nav_vars, test_vars>>

\* ExplorerScreen.action_go_home
action_go_home ==
  LET r == reset(_nav)
  IN  /\ handler' = "action_go_home"
      /\ _nav' = r.self
      /\ error' = r.raised
      /\ current_module' = "cascade_lattice"
      /\ panels' = _update_view("cascade_lattice", scientist_mode, r.self, panels)
      /\ graph' = get_each(graph, _update_view_lookups("cascade_lattice", r.self))
      /\ UNCHANGED <<scientist_mode, switch_value, tree, tree_cursor, pending, popped>>
      /\ UNCHANGED <<nav_vars, test_vars>>

\* ExplorerScreen.action_toggle_mode: assigning toggle.value makes the Switch
\* post Switch.Changed with the new value.
action_toggle_mode ==
  /\ Len(pending) < MaxPending
  /\ handler' = "action_toggle_mode"
  /\ switch_value' = ~switch_value
  /\ pending' = Append(pending, SwitchChanged(~switch_value))
  /\ UNCHANGED <<_nav, current_module, scientist_mode, panels, tree, tree_cursor,
                 popped, error, graph>>
  /\ UNCHANGED <<nav_vars, test_vars>>

(***************************************************************************)
(* Related-panel derivation over arbitrary graphs                          *)
(***************************************************************************)

\* Most entries the children, imports_from and imported_by lists of the node
\* under derivation hold together.
MaxRelated == 4

\* Ids the relation lists are drawn from; x names no node.
TestIds == {"a", "b", "c", "x"}

\* All sequences over S of length at most n.
SeqsUpTo(S, n) == UNION {[1..k -> S] : k \in 0..n}

\* A module graph holding `node` under the key n, and nodes a, b and c.
TestGraph(node) ==
  ("n" :> node) @@
  [key \in {"a", "b", "c"} |-> ModuleNode("", "", <<>>, <<>>, <<>>, <<>>, "n")]

\* No derivation under way.
NoRelatedTest == [graph |-> <<>>, module_key |-> None, buttons |-> <<>>, done |-> FALSE]

\* A LiveStatsWidget before its first poll: it has no _stats attribute.
NoStats == [has_stats |-> FALSE, error |-> FALSE]

\* No graph definition under test.
NoStartTest ==
  [graph |-> <<>>, phase |-> "none", tree |-> <<>>, path |-> <<>>,
   current_module |-> None, shown |-> None]

\* No explorer whose trail is recorded.
NoReachTest == [current_module |-> None, visited |-> {}]

\* Nothing rendered, no widget under test.
NoRenderTest ==
  [path |-> <<>>, crumbs |-> [text |-> <<>>, raised |-> FALSE], crumbs_done |-> FALSE,
   graph |-> <<>>, module_key |-> None,
   exports |-> [text |-> <<>>, raised |-> FALSE], exports_done |-> FALSE]

\* A RelatedModulesPanel whose module_key names a node with any parent and
\* any relation lists over TestIds, before its buttons are built.
InitRelated ==
  /\ InitNav
  /\ InitUI
  /\ render_test = NoRenderTest
  /\ start_test = NoStartTest
  /\ live_stats = NoStats
  /\ reach_test = NoReachTest
  /\ \E parent \in TestIds \cup {None} :
       \E children \in SeqsUpTo(TestIds, MaxRelated) :
         \E imports_from \in SeqsUpTo(TestIds, MaxRelated - Len(children)) :
           \E imported_by \in SeqsUpTo(TestIds,
                                MaxRelated - Len(children) - Len(imports_from)) :
             related_test =
               [graph |-> TestGraph(ModuleNode("", "", <<>>, imports_from, imported_by,
                                               children, parent)),
                module_key |-> "n", buttons |-> <<>>, done |-> FALSE]

\* RelatedModulesPanel._rebuild_buttons runs for the panel.
RebuildButtons ==
  /\ ~related_test.done
  /\ related_test' =
       [related_test EXCEPT
          !.buttons = rebuild_buttons_in(related_test.graph, related_test.module_key),
          !.done = TRUE]
  /\ UNCHANGED <<nav_vars, ui_vars, start_test, render_test, live_stats, reach_test>>

NextRelated == RebuildButtons

SpecRelated == InitRelated /\ [][NextRelated]_vars

(***************************************************************************)
(* View derivation for an arbitrary current module                         *)
(***************************************************************************)

\* Values of current_module the view is derived for: every key of the
\* graph, and three ids the graph refers to without defining them.
ViewIds == DOMAIN MODULE_GRAPH \cup {"viz.tape", "brain", "core.event"}

\* Modules whose view the panels may show before the derivation.
ShownBefore == {"cascade_lattice", "core"}

\* A screen whose panels show one module, in either mode, and whose
\* current_module has then been set to any id, with the trail ending there.
InitView ==
  /\ InitNav
  /\ related_test = NoRelatedTest
  /\ render_test = NoRenderTest
  /\ start_test = NoStartTest
  /\ live_stats = NoStats
  /\ reach_test = NoReachTest
  /\ scientist_mode \in BOOLEAN
  /\ switch_value = scientist_mode
  /\ current_module \in ViewIds
  /\ _nav \in {[path |-> <<"cascade_lattice">>],
               [path |-> <<"cascade_lattice", current_module>>]}
  /\ \E shown \in ShownBefore, mode \in BOOLEAN :
       panels = _update_view(shown, mode, NavState, ComposedPanels)
  /\ tree = _build_tree
  /\ tree_cursor = None
  /\ pending = <<>>
  /\ handler = "on_mount"
  /\ popped = None
  /\ error = FALSE
  /\ graph = MODULE_GRAPH

\* ExplorerScreen._update_view runs for that screen.
UpdateView ==
  /\ handler = "on_mount"
  /\ handler' = "_update_view"
  /\ panels' = _update_view(current_module, scientist_mode, _nav, panels)
  /\ graph' = get_each(graph, _update_view_lookups(current_module, _nav))
  /\ UNCHANGED <<_nav, current_module, scientist_mode, switch_value, tree, tree_cursor,
                 pending, popped, error>>
  /\ UNCHANGED <<nav_vars, test_vars>>

\* _update_view runs once more for the same screen, nothing having changed
\* in between.
UpdateViewAgain ==
  /\ handler = "_update_view"
  /\ handler' = "_update_view again"
  /\ panels' = _update_view(current_module, scientist_mode, _nav, panels)
  /\ graph' = get_each(graph, _update_view_lookups(current_module, _nav))
  /\ UNCHANGED <<_nav, current_module, scientist_mode, switch_value, tree, tree_cursor,
                 pending, popped, error>>
  /\ UNCHANGED <<nav_vars, test_vars>>

NextView == UpdateView \/ UpdateViewAgain

SpecView == InitView /\ [][NextView]_vars

(***************************************************************************)
(* Rendering of the breadcrumb and the exports panel                       *)
(***************************************************************************)

\* Most exports the node under test declares.
MaxExports == 3

\* Ids the breadcrumb paths are drawn from; brain names no node.
CrumbIds == {"cascade_lattice", "core", "brain"}

\* Export names the test node declares: a class and a function.
ExportNames == {"Event", "query"}

\* A BreadcrumbWidget holding any path over CrumbIds, and an ExportsPanel
\* whose module_key names the test node n with any exports, the node a,
\* which declares none, or x, which names no node; nothing rendered yet.
InitRender ==
  /\ InitNav
  /\ InitUI
  /\ related_test = NoRelatedTest
  /\ start_test = NoStartTest
  /\ live_stats = NoStats
  /\ reach_test = NoReachTest
  /\ \E path \in SeqsUpTo(CrumbIds, MaxPath) :
       \E exports \in SeqsUpTo(ExportNames, MaxExports) :
         \E module_key \in {"n", "a", "x"} :
           render_test =
             [NoRenderTest EXCEPT
                !.path = path,
                !.graph = TestGraph(ModuleNode("", "", exports, <<>>, <<>>, <<>>, None)),
                !.module_key = module_key]

\* BreadcrumbWidget.render runs for the widget.
RenderBreadcrumb ==
  /\ ~render_test.crumbs_done
  /\ render_test' = [render_test EXCEPT !.crumbs = BreadcrumbWidget_render(render_test.path),
                                        !.crumbs_done = TRUE]
  /\ UNCHANGED <<nav_vars, ui_vars, related_test, start_test, live_stats, reach_test>>

\* ExportsPanel.render runs for the panel.
RenderExports ==
  /\ ~render_test.exports_done
  /\ render_test' =
       [render_test EXCEPT
          !.exports = ExportsPanel_render_in(render_test.graph, render_test.module_key),
          !.exports_done = TRUE]
  /\ UNCHANGED <<nav_vars, ui_vars, related_test, start_test, live_stats, reach_test>>

NextRender == RenderBreadcrumb \/ RenderExports

SpecRender == InitRender /\ [][NextRender]_vars

(***************************************************************************)
(* Start of the explorer over an arbitrary graph definition                *)
(***************************************************************************)

\* Most children a node of the definition under test declares.
MaxKids == 2

\* Ids the definition under test is written over.
StartIds == {"cascade_lattice", "a"}

\* Every graph definition over StartIds: any of the ids may be a key, and a
\* node may declare any children and any parent, well formed or not.
StartGraphs ==
  UNION {[keys -> {ModuleNode("", "", <<>>, <<>>, <<>>, children, parent) :
                     children \in SeqsUpTo(StartIds, MaxKids),
                     parent \in StartIds \cup {None}}] :
         keys \in SUBSET StartIds}

\* The module has been imported with some graph definition: the dict
\* literal is evaluated and the global NavState created, no screen mounted.
InitStart ==
  /\ InitNav
  /\ InitUI
  /\ related_test = NoRelatedTest
  /\ render_test = NoRenderTest
  /\ live_stats = NoStats
  /\ reach_test = NoReachTest
  /\ \E g \in StartGraphs :
       start_test = [graph |-> g, phase |-> "imported", tree |-> <<>>,
                     path |-> NavState.path, current_module |-> "cascade_lattice",
                     shown |-> None]

\* ExplorerScreen.on_mount over the definition: _build_tree, then
\* _update_view.  A RecursionError leaves on_mount and ends the application.
StartOnMount ==
  /\ start_test.phase = "imported"
  /\ LET built == _build_tree_in(start_test.graph)
     IN  start_test' =
           IF built.raised
             THEN [start_test EXCEPT !.phase = "crashed"]
             ELSE [start_test EXCEPT
                     !.phase = "mounted",
                     !.tree = built.nodes,
                     !.shown = IF "cascade_lattice" \in DOMAIN start_test.graph
                                 THEN "cascade_lattice" ELSE start_test.shown]
  /\ UNCHANGED <<nav_vars, ui_vars, related_test, render_test, live_stats, reach_test>>

\* The user selects a node of the tree built from the definition
\* (on_tree_select).
StartSelectTreeNode ==
  /\ start_test.phase \in {"mounted", "navigated"}
  /\ \E i \in DOMAIN start_test.tree :
       LET data == start_test.tree[i].data
           r == jump_to([path |-> start_test.path], data)
       IN  /\ Truthy(data)
           /\ start_test' =
                [start_test EXCEPT
                   !.phase = "navigated",
                   !.path = r.self.path,
                   !.current_module = data,
                   !.shown = IF data \in DOMAIN start_test.graph THEN data ELSE @]
  /\ UNCHANGED <<nav_vars, ui_vars, related_test, render_test, live_stats, reach_test>>

\* The user presses h (action_go_home) on the screen started over the
\* definition.
StartGoHome ==
  /\ start_test.phase \in {"mounted", "navigated"}
  /\ start_test' =
       [start_test EXCEPT
          !.phase = "navigated",
          !.path = reset([path |-> start_test.path]).self.path,
          !.current_module = "cascade_lattice",
          !.shown = IF "cascade_lattice" \in DOMAIN start_test.graph
                      THEN "cascade_lattice" ELSE @]
  /\ UNCHANGED <<nav_vars, ui_vars, related_test, render_test, live_stats, reach_test>>

NextStart == StartOnMount \/ StartSelectTreeNode \/ StartGoHome

SpecStart == InitStart /\ [][NextStart]_vars

(***************************************************************************)
(* The stats poll beside the explorer                                      *)
(***************************************************************************)

\* _refresh_stats letting the exception of a failed poll leave the callback:
\* the application's handler for it returns the explorer to the root.
_refresh_stats_propagates ==
  \E poll_raises \in BOOLEAN :
    /\ live_stats' = [has_stats |-> TRUE, error |-> poll_raises]
    /\ IF poll_raises
         THEN /\ _nav' = reset(_nav).self
              /\ current_module' = "cascade_lattice"
              /\ UNCHANGED <<scientist_mode, switch_value, panels, tree, tree_cursor,
                             pending, handler, popped, error, graph>>
         ELSE UNCHANGED ui_vars
    /\ UNCHANGED <<nav_vars, related_test, start_test, render_test, reach_test>>

\* LiveStatsWidget._refresh_stats, called by on_mount and then by the
\* 5-second interval timer.  The stats provider is outside this repository:
\* the call returns a mapping or raises, and `except Exception` stores the
\* message under the key error.
_refresh_stats ==
  \E poll_raises \in BOOLEAN :
    /\ live_stats' = [has_stats |-> TRUE, error |-> poll_raises]
    /\ UNCHANGED ui_vars
    /\ UNCHANGED <<nav_vars, related_test, start_test, render_test, reach_test>>

\* LiveStatsWidget.render: which of its three texts the widget shows.
LiveStatsWidget_render(widget) ==
  IF ~widget.has_stats
    THEN "Loading..."
    ELSE IF widget.error THEN "Error: {error}" ELSE "counters"

(***************************************************************************)
(* Where select and related-click intents lead                             *)
(***************************************************************************)

\* ExplorerScreen after on_mount: the root is current and is the only module
\* shown so far.
InitReach ==
  /\ InitNav
  /\ InitUI
  /\ related_test = NoRelatedTest
  /\ render_test = NoRenderTest
  /\ start_test = NoStartTest
  /\ live_stats = NoStats
  /\ reach_test = [current_module |-> "cascade_lattice", visited |-> {"cascade_lattice"}]

\* What a handler's `self.current_module = key` followed by _update_view
\* leaves: key is current and has been shown.
ReachShows(key) ==
  /\ reach_test' = [current_module |-> key,
                    visited |-> reach_test.visited \cup {key}]
  /\ UNCHANGED <<nav_vars, ui_vars, related_test, start_test, render_test, live_stats>>

\* on_tree_select for any node of the tree _build_tree made.
ReachSelectTreeNode ==
  \E key \in TreeData(_build_tree) :
    /\ Truthy(key)
    /\ ReachShows(key)

\* on_button_pressed for any button the related panel shows for the current
\* module, then on_related_clicked for the ModuleClicked it posts.
ReachRelatedClick ==
  \E key \in Tooltips(_rebuild_buttons(reach_test.current_module)) :
    /\ Truthy(key)
    /\ key \in DOMAIN MODULE_GRAPH
    /\ ReachShows(key)

NextReach == ReachSelectTreeNode \/ ReachRelatedClick

SpecReach == InitReach /\ [][NextReach]_vars

Init ==
  /\ InitNav
  /\ InitUI
  /\ related_test = NoRelatedTest
  /\ render_test = NoRenderTest
  /\ start_test = NoStartTest
  /\ live_stats = NoStats
  /\ reach_test = NoReachTest

NextNav == CallPush \/ CallPop \/ CallJumpTo \/ CallReset

SpecNav == Init /\ [][NextNav]_vars

Next ==
  \/ SelectTreeNode
  \/ on_button_pressed
  \/ on_related_clicked
  \/ DeliverNodeSelected
  \/ on_mode_toggle
  \/ action_go_back
  \/ action_go_home
  \/ action_toggle_mode

Spec == Init /\ [][Next]_vars

\* The tree, back, home and mode intents of the explorer with the stats poll
\* firing between any two of them.
NextStats ==
  \/ SelectTreeNode
  \/ action_go_back
  \/ action_go_home
  \/ action_toggle_mode
  \/ on_mode_toggle
  \/ _refresh_stats

SpecStats == Init /\ [][NextStats]_vars

(***************************************************************************)
(* Properties of NavState (checked under SpecNav)                          *)
(***************************************************************************)

NoDuplicates(s) == \A i, j \in 1..Len(s) : i # j => s[i] # s[j]

\* C1: after any sequence of jump_to calls, interleaved with push, pop and
\* reset, from the initial NavState, path contains no id more than once.
C1_PathHasNoDuplicates == NoDuplicates(nav.path)

\* jump_to has revisited a node in the middle of a three-element trail.
C1_Witness ==
  /\ call.op = "jump_to"
  /\ Len(before.path) = 3
  /\ before.path[2] = call.arg
  /\ Len(nav.path) = 2

\* C2: in every state reachable by push, pop, jump_to and reset from the
\* initial NavState, path has at least one element.
C2_PathNeverEmpty == Len(nav.path) >= 1

\* pop has been called on a single-element path.
C2_Witness ==
  /\ call.op = "pop"
  /\ Len(before.path) = 1
  /\ Len(nav.path) = 1

\* C3: jump_to(x) with x in path at 0-based position i leaves exactly the
\* former first i+1 elements: length i+1, positions 0..i unchanged, the rest
\* discarded.  (p below is the 1-based position, p = i+1.)
C3_JumpToRevisitTruncates ==
  call.op = "jump_to" =>
    \A p \in 1..Len(before.path) :
      before.path[p] = call.arg =>
        /\ Len(nav.path) = p
        /\ \A k \in 1..p : nav.path[k] = before.path[k]

\* jump_to has revisited the first node of a three-element trail, so two
\* elements were discarded.
C3_Witness ==
  /\ call.op = "jump_to"
  /\ Len(before.path) = 3
  /\ before.path[1] = call.arg
  /\ nav.path = <<call.arg>>

\* C4: jump_to(x) with x not in path yields the old path with exactly one
\* element, x, appended; earlier elements keep value and position.
C4_JumpToNewAppends ==
  (call.op = "jump_to" /\ \A p \in 1..Len(before.path) : before.path[p] # call.arg) =>
    /\ Len(nav.path) = Len(before.path) + 1
    /\ nav.path[Len(nav.path)] = call.arg
    /\ \A k \in 1..Len(before.path) : nav.path[k] = before.path[k]

\* jump_to has extended a two-element trail by a new id.
C4_Witness ==
  /\ call.op = "jump_to"
  /\ Len(before.path) = 2
  /\ \A p \in 1..Len(before.path) : before.path[p] # call.arg
  /\ Len(nav.path) = 3

\* C5: pop() on a path longer than 1 removes exactly the last element and
\* returns it; the rest is unchanged, so the new current node is the element
\* that preceded the popped one.
C5_PopRemovesAndReturnsLast ==
  (call.op = "pop" /\ Len(before.path) > 1) =>
    /\ Len(nav.path) = Len(before.path) - 1
    /\ \A k \in 1..Len(nav.path) : nav.path[k] = before.path[k]
    /\ ret = before.path[Len(before.path)]
    /\ current(nav) = before.path[Len(before.path) - 1]

\* pop has removed the last of three elements.
C5_Witness ==
  /\ call.op = "pop"
  /\ Len(before.path) = 3
  /\ ret = before.path[3]
  /\ Len(nav.path) = 2

\* C7: reset() yields path = [root id] from every prior state; when path is
\* already [root] it changes nothing.
C7_ResetYieldsRoot ==
  call.op = "reset" =>
    /\ nav.path = <<"cascade_lattice">>
    /\ (before.path = <<"cascade_lattice">> => nav = before)

\* reset has discarded a three-element trail.
C7_Witness ==
  /\ call.op = "reset"
  /\ Len(before.path) = 3
  /\ nav.path = <<"cascade_lattice">>

\* C8: push(x) appends x at the end of path iff x occurs nowhere in path; if
\* x occurs at any position, the last or an earlier one, path is unchanged.
C8_PushAppendsIffAbsent ==
  call.op = "push" =>
    IF \E p \in 1..Len(before.path) : before.path[p] = call.arg
      THEN nav.path = before.path
      ELSE nav.path = before.path \o <<call.arg>>

\* push has been called with an id that occurs before the last position.
C8_Witness ==
  /\ call.op = "push"
  /\ Len(before.path) >= 2
  /\ \E p \in 1..(Len(before.path) - 1) : before.path[p] = call.arg
  /\ nav.path = before.path

\* C9: push, pop, jump_to and reset are total: in every reachable NavState
\* and for every id, in the graph or not, each completes without raising and
\* leaves a well-formed path; no call made so far has raised.
C9_OperationsAreTotal ==
  /\ ~raised
  /\ \A m \in NavIds :
       /\ ~push(nav, m).raised /\ push(nav, m).self.path \in Seq(NavIds)
       /\ ~jump_to(nav, m).raised /\ jump_to(nav, m).self.path \in Seq(NavIds)
  /\ ~pop(nav).raised /\ pop(nav).self.path \in Seq(NavIds)
  /\ ~reset(nav).raised /\ reset(nav).self.path \in Seq(NavIds)

\* jump_to has completed for an id that is no key of the graph.
C9_Witness ==
  /\ call.op = "jump_to"
  /\ call.arg \notin DOMAIN MODULE_GRAPH
  /\ ~raised
  /\ current(nav) = call.arg

(***************************************************************************)
(* Properties of the screen (checked under Spec)                           *)
(***************************************************************************)

\* C6: pop() on a single-element path returns none and leaves path
\* unchanged, and go-back in that state is a silent no-op: path, current
\* module and display mode (and with them the panels) are unchanged and no
\* error is raised.
C6_BackAtRootIsNoOp ==
  [][(handler' = "action_go_back" /\ Len(_nav.path) = 1) =>
       /\ popped' = None
       /\ _nav'.path = _nav.path
       /\ current_module' = current_module
       /\ scientist_mode' = scientist_mode
       /\ panels' = panels
       /\ error' = FALSE]_vars

\* go-back has run on the single-element path, in scientist mode.
C6_Witness ==
  /\ handler = "action_go_back"
  /\ popped = None
  /\ Len(_nav.path) = 1
  /\ scientist_mode = TRUE

\* C10: in every state reachable through the user's intents, every id in
\* path is a key of the module graph and current is the last element of path.
C10_PathIdsResolveAndEndAtCurrent ==
  /\ \A i \in 1..Len(_nav.path) : _nav.path[i] \in DOMAIN MODULE_GRAPH
  /\ Len(_nav.path) >= 1
  /\ current(_nav) = _nav.path[Len(_nav.path)]

\* A related button has led to monitor, a node the tree does not hold, from
\* a trail that went through the tree.
C10_Witness ==
  /\ handler = "on_related_clicked"
  /\ current(_nav) = "monitor"
  /\ Len(_nav.path) = 3

(***************************************************************************)
(* Root of the trail (checked under SpecNav)                               *)
(***************************************************************************)

\* C11: in every state reachable by push, pop, jump_to and reset from the
\* initial NavState, the first element of path is the root id
\* cascade_lattice.
C11_PathStartsAtRoot ==
  /\ Len(nav.path) >= 1
  /\ nav.path[1] = "cascade_lattice"

\* pop has taken a two-element trail back to the root alone.
C11_Witness ==
  /\ call.op = "pop"
  /\ Len(before.path) = 2
  /\ nav.path = <<"cascade_lattice">>

(***************************************************************************)
(* Display mode (checked under Spec)                                       *)
(***************************************************************************)

\* C12: the toggle-display-mode intent flips the display mode between its
\* two values and leaves path and the current module unchanged.  The intent
\* is action_toggle_mode, which flips the switch, followed by on_mode_toggle
\* for the Switch.Changed it causes, which sets scientist_mode.
C12_ToggleFlipsModeOnly ==
  [][/\ handler' = "action_toggle_mode" =>
          /\ switch_value' = ~switch_value
          /\ scientist_mode' = scientist_mode
          /\ _nav' = _nav
          /\ current_module' = current_module
     /\ handler' = "on_mode_toggle" =>
          /\ scientist_mode' = ~scientist_mode
          /\ scientist_mode' \in BOOLEAN
          /\ _nav' = _nav
          /\ current_module' = current_module]_vars

\* The mode has been toggled to scientist away from the root.
C12_Witness ==
  /\ handler = "on_mode_toggle"
  /\ scientist_mode = TRUE
  /\ Len(_nav.path) = 2
  /\ current_module = _nav.path[2]

(***************************************************************************)
(* Properties of the related panel (checked under SpecRelated)             *)
(***************************************************************************)

\* The node whose relations the panel under derivation shows.
TestNode == related_test.graph[related_test.module_key]

\* The first three entries of a list.
FirstThree(s) == SubSeq(s, 1, IF Len(s) < 3 THEN Len(s) ELSE 3)

\* The ids that qualify for the panel, each with the category it qualifies
\* under, in the order of precedence: the parent, the children, the first
\* three imports_from, the first three imported_by.
Candidates(node) ==
  (IF node.parent = None THEN <<>> ELSE <<[key |-> node.parent, variant |-> "default"]>>)
  \o [i \in DOMAIN node.children |-> [key |-> node.children[i], variant |-> "primary"]]
  \o [i \in DOMAIN FirstThree(node.imports_from) |->
        [key |-> node.imports_from[i], variant |-> "success"]]
  \o [i \in DOMAIN FirstThree(node.imported_by) |->
        [key |-> node.imported_by[i], variant |-> "warning"]]

\* The first position at which key k occurs among the candidates c.
FirstSlot(c, k) ==
  CHOOSE i \in DOMAIN c : c[i].key = k /\ \A j \in 1..(i - 1) : c[j].key # k

\* C13: for every current node and every graph, whatever the overlap between
\* parent, children, imports_from and imported_by, the related-panel list
\* never contains the same node id twice.
C13_RelatedHasNoDuplicates ==
  related_test.done =>
    \A i, j \in DOMAIN related_test.buttons :
      i # j => related_test.buttons[i].tooltip # related_test.buttons[j].tooltip

\* Buttons were built for a node one of whose children is also among its
\* first imported_by entries, and again among its imports_from.
C13_Witness ==
  /\ related_test.done
  /\ Len(TestNode.children) >= 1
  /\ Len(TestNode.imported_by) >= 1
  /\ Len(TestNode.imports_from) >= 1
  /\ TestNode.children[1] = TestNode.imported_by[1]
  /\ TestNode.children[1] = TestNode.imports_from[1]
  /\ TestNode.children[1] \in DOMAIN related_test.graph
  /\ Len(related_test.buttons) >= 2

\* C14: the related-panel list follows the precedence parent, children in
\* stored order, first three imports_from in stored order, first three
\* imported_by in stored order; an id that qualifies under several
\* categories appears only at its first, highest-precedence slot, with that
\* slot's category.
C14_RelatedFollowsPrecedence ==
  related_test.done =>
    LET c == Candidates(TestNode)
        b == related_test.buttons
    IN  /\ {b[i].tooltip : i \in DOMAIN b} =
             {c[i].key : i \in DOMAIN c} \cap DOMAIN related_test.graph
        /\ \A i, j \in DOMAIN b :
             i < j => FirstSlot(c, b[i].tooltip) < FirstSlot(c, b[j].tooltip)
        /\ \A i \in DOMAIN b : b[i].variant = c[FirstSlot(c, b[i].tooltip)].variant

\* Buttons were built for a node whose parent is also in its imports_from
\* and in its imported_by: the parent holds the first slot, as parent, and
\* buttons of two further categories follow it.
C14_Witness ==
  /\ related_test.done
  /\ TestNode.parent \in DOMAIN related_test.graph
  /\ \E i \in DOMAIN TestNode.imports_from : TestNode.imports_from[i] = TestNode.parent
  /\ \E i \in DOMAIN TestNode.imported_by : TestNode.imported_by[i] = TestNode.parent
  /\ Len(related_test.buttons) = 3
  /\ related_test.buttons[1] = [tooltip |-> TestNode.parent, variant |-> "default"]
  /\ related_test.buttons[2].variant = "success"
  /\ related_test.buttons[3].variant = "warning"

\* Whether an id names a node of the graph under derivation.
ResolvesInTest(key) == key \in DOMAIN related_test.graph

\* C15: ids absent from the graph are skipped and consume no slot: a
\* dangling id among the entries of imports_from (or imported_by) takes up
\* none of the three places of its category, so the first three resolvable
\* entries of the category are all offered.
C15_DanglingConsumesNoSlot ==
  related_test.done =>
    /\ \A i \in DOMAIN related_test.buttons :
         ResolvesInTest(related_test.buttons[i].tooltip)
    /\ \A i \in DOMAIN FirstThree(SelectSeq(TestNode.imports_from, ResolvesInTest)) :
         SelectSeq(TestNode.imports_from, ResolvesInTest)[i]
           \in Tooltips(related_test.buttons)
    /\ \A i \in DOMAIN FirstThree(SelectSeq(TestNode.imported_by, ResolvesInTest)) :
         SelectSeq(TestNode.imported_by, ResolvesInTest)[i]
           \in Tooltips(related_test.buttons)

(***************************************************************************)
(* Properties of the document panel                                        *)
(***************************************************************************)

\* The documentation texts of the nodes of the graph.
NodeTexts ==
  {MODULE_GRAPH[key].doc_dummy : key \in DOMAIN MODULE_GRAPH}
    \cup {MODULE_GRAPH[key].doc_scientist : key \in DOMAIN MODULE_GRAPH}

\* C16 (under Spec): for every node of the graph taken as current, the
\* document panel shows that node's expert text iff the display mode is
\* expert, and its novice text otherwise; after every intent the text shown
\* is the current node's, not that of a node visited before.
C16_DocIsCurrentNodesTextForMode ==
  /\ current_module \in DOMAIN MODULE_GRAPH
  /\ (panels.doc_content = MODULE_GRAPH[current_module].doc_scientist) <=> scientist_mode
  /\ (panels.doc_content = MODULE_GRAPH[current_module].doc_dummy) <=> ~scientist_mode
  /\ \A key \in DOMAIN MODULE_GRAPH, mode \in BOOLEAN :
       LET doc == _update_view(key, mode, _nav, panels).doc_content
       IN  /\ (doc = MODULE_GRAPH[key].doc_scientist) <=> mode
           /\ (doc = MODULE_GRAPH[key].doc_dummy) <=> ~mode

\* go-back has returned to core in scientist mode: the panel shows core's
\* expert text.
C16_Witness ==
  /\ handler = "action_go_back"
  /\ popped = "hold"
  /\ current_module = "core"
  /\ scientist_mode = TRUE
  /\ panels.doc_content = MODULE_GRAPH["core"].doc_scientist

\* C17 (under SpecView): when current is an id absent from the graph, view
\* derivation does not fail and the document panel shows a "module not
\* found" placeholder, not the text of a node shown before.
C17_UnresolvableShowsPlaceholder ==
  (handler = "_update_view" /\ current_module \notin DOMAIN MODULE_GRAPH) =>
    panels.doc_content \notin NodeTexts

(***************************************************************************)
(* End-to-end scenario and tree view (checked under Spec)                  *)
(***************************************************************************)

\* C18: on the shipped graph, from path = [cascade_lattice] in novice mode,
\* selecting core gives path = [cascade_lattice, core] with core's novice
\* text; hold is offered in core's related panel and clicking it gives
\* path = [cascade_lattice, core, hold]; toggling to expert leaves path
\* unchanged and shows hold's expert text; selecting cascade_lattice in the
\* tree truncates path to [cascade_lattice].
C18_EndToEndScenario ==
  [][/\ (/\ handler' = "on_tree_select" /\ current_module' = "core"
         /\ _nav.path = <<"cascade_lattice">> /\ ~scientist_mode) =>
          /\ _nav'.path = <<"cascade_lattice", "core">>
          /\ panels'.doc_content = MODULE_GRAPH["core"].doc_dummy
          /\ panels'.related_module_key = "core"
     /\ panels.related_module_key = "core" =>
          "hold" \in Tooltips(panels.related_buttons)
     /\ (/\ handler' = "on_related_clicked" /\ current_module' = "hold"
         /\ _nav.path = <<"cascade_lattice", "core">>) =>
          _nav'.path = <<"cascade_lattice", "core", "hold">>
     /\ (/\ handler' = "on_mode_toggle" /\ scientist_mode' = TRUE
         /\ current_module = "hold"
         /\ _nav.path = <<"cascade_lattice", "core", "hold">>) =>
          /\ _nav'.path = _nav.path
          /\ panels'.doc_content = MODULE_GRAPH["hold"].doc_scientist
     /\ (/\ handler' = "on_tree_select" /\ current_module' = "cascade_lattice"
         /\ _nav.path = <<"cascade_lattice", "core", "hold">>) =>
          _nav'.path = <<"cascade_lattice">>]_vars

\* The scenario before its last step: core was selected, hold was reached
\* (the tree cursor followed it), and the mode was just toggled to expert.
C18_Witness ==
  /\ handler = "on_mode_toggle"
  /\ tree_cursor = "hold"
  /\ scientist_mode = TRUE
  /\ switch_value = TRUE
  /\ current_module = "hold"
  /\ _nav.path = <<"cascade_lattice", "core", "hold">>
  /\ panels.doc_content = MODULE_GRAPH["hold"].doc_scientist
  /\ pending = <<>>

\* C19: the structure of the tree view is the same after every sequence of
\* navigation intents: no select, related-click, back, home or toggle-mode
\* adds, removes or reorders tree nodes; only the cursor changes.
C19_TreeStructureUnchanged == [][tree' = tree]_vars

\* A related click has moved the cursor to hold, two steps from the root.
C19_Witness ==
  /\ handler = "on_related_clicked"
  /\ tree_cursor = "hold"
  /\ _nav.path = <<"cascade_lattice", "core", "hold">>
  /\ tree = _build_tree

\* Position in tree t of the node that node j hangs under.
ParentIndex(t, j) == CHOOSE i \in DOMAIN t : t[i].data = t[j].parent

RECURSIVE IsBeneath(_, _, _)

\* Node m of tree t lies in the subtree below node a.
IsBeneath(t, m, a) ==
  /\ m > 1
  /\ \/ ParentIndex(t, m) = a
     \/ IsBeneath(t, ParentIndex(t, m), a)

\* C20: the tree view is the depth-first expansion of the containment tree
\* from the root id: the root comes first, every node's resolvable children
\* hang beneath it in their stored order, child ids absent from the graph
\* are omitted, each subtree is completed before the next sibling is added,
\* and building the tree terminates on the shipped graph.
C20_TreeIsDepthFirstExpansion ==
  /\ Len(tree) >= 1
  /\ tree[1] = [data |-> "cascade_lattice", parent |-> None]
  /\ \A i \in DOMAIN tree : tree[i].data \in DOMAIN MODULE_GRAPH
  /\ \A i, j \in DOMAIN tree : i # j => tree[i].data # tree[j].data
  /\ \A j \in 2..Len(tree) :
       /\ \E i \in 1..(j - 1) : tree[i].data = tree[j].parent
       /\ ParentIndex(tree, j) < j
       /\ \A m \in (ParentIndex(tree, j) + 1)..(j - 1) :
            IsBeneath(tree, m, ParentIndex(tree, j))
  /\ \A i \in DOMAIN tree :
       LET k == tree[i].data
           under == SelectSeq(tree, LAMBDA node : node.parent = k)
           stored == SelectSeq(MODULE_GRAPH[k].children,
                               LAMBDA c : c \in DOMAIN MODULE_GRAPH)
       IN  [n \in DOMAIN under |-> under[n].data] = stored

\* The tree was built: hold.session hangs under hold, two levels down, and
\* nothing hangs under viz, whose only child id names no node.
C20_Witness ==
  /\ handler = "on_mount"
  /\ \E i \in DOMAIN tree : tree[i] = [data |-> "hold.session", parent |-> "hold"]
  /\ \A i \in DOMAIN tree : tree[i].parent # "viz"
  /\ \E i \in DOMAIN tree : tree[i].data = "viz"

(***************************************************************************)
(* Properties of the rendered widgets (checked under SpecRender)           *)
(***************************************************************************)

\* The entries of a rendered breadcrumb, in the order rendered.
Entries(text) == SelectSeq(text, LAMBDA c : c.kind = "entry")

\* C21: the breadcrumb has exactly one entry per element of path, in path
\* order; an element that names no node of the graph is rendered with the
\* placeholder icon and its raw id as label, and rendering does not fail.
C21_BreadcrumbHasOneEntryPerElement ==
  render_test.crumbs_done =>
    LET path == render_test.path
        entries == Entries(render_test.crumbs.text)
    IN  /\ ~render_test.crumbs.raised
        /\ Len(entries) = Len(path)
        /\ \A i \in DOMAIN path :
             /\ entries[i].label = path[i]
             /\ entries[i].icon = IF path[i] \in DOMAIN MODULE_GRAPH
                                    THEN icon[path[i]] ELSE "package"

\* A path through a node, an id that names none, and a node again has been
\* rendered.
C21_Witness ==
  /\ render_test.crumbs_done
  /\ render_test.path = <<"cascade_lattice", "brain", "core">>
  /\ Len(Entries(render_test.crumbs.text)) = 3
  /\ Entries(render_test.crumbs.text)[2].icon = "package"
  /\ Entries(render_test.crumbs.text)[2].label = "brain"

\* The export lines of a rendered exports panel, in the order rendered.
ExportsListed(text) ==
  LET lines == SelectSeq(text, LAMBDA l : l.kind = "export")
  IN  [i \in DOMAIN lines |-> lines[i].name]

\* C22: the exports panel lists the exports of the current node, the same
\* elements in the same order; a node without exports yields the "No
\* exports" state, and rendering does not fail.
C22_ExportsListedInOrder ==
  (render_test.exports_done /\ render_test.module_key \in DOMAIN render_test.graph) =>
    LET exports == render_test.graph[render_test.module_key].exports
        text == render_test.exports.text
    IN  /\ ~render_test.exports.raised
        /\ IF exports = <<>>
             THEN /\ Len(text) = 1
                  /\ text[1].kind = "plain"
                  /\ text[1].name = "No exports"
             ELSE ExportsListed(text) = exports

\* A node exporting a function, a class and the function again has been
\* rendered.
C22_Witness ==
  /\ render_test.exports_done
  /\ render_test.module_key = "n"
  /\ render_test.graph["n"].exports = <<"query", "Event", "query">>
  /\ ExportsListed(render_test.exports.text) = <<"query", "Event", "query">>

(***************************************************************************)
(* Properties of the graph store (checked under Spec)                      *)
(***************************************************************************)

\* C23: the graph store is never mutated after construction: after any
\* navigation intents, view derivations and lookups of missing ids it holds
\* the nodes, and each node the relation lists, it was constructed with.
C23_GraphStoreNeverMutated == graph = MODULE_GRAPH

\* The view has been derived for hold, whose related panel looks up
\* core.event and core.provenance, ids that name no node.
C23_Witness ==
  /\ handler = "on_tree_select"
  /\ current_module = "hold"
  /\ \E i \in DOMAIN _rebuild_buttons_lookups("hold") :
       _rebuild_buttons_lookups("hold")[i] = "core.event"
  /\ "core.event" \notin DOMAIN graph
  /\ graph = MODULE_GRAPH

(***************************************************************************)
(* Properties of the start over a graph definition (checked under          *)
(* SpecStart)                                                              *)
(***************************************************************************)

\* The containment edges of a graph definition: from a node to each child
\* it declares, and from a node's declared parent to the node.
Edges(g) ==
  {e \in StartIds \X StartIds :
     \/ /\ e[1] \in DOMAIN g
        /\ \E i \in DOMAIN g[e[1]].children : g[e[1]].children[i] = e[2]
     \/ /\ e[2] \in DOMAIN g
        /\ g[e[2]].parent = e[1]}

\* Whether the edge set has a cycle: over the two ids of StartIds a cycle is
\* a loop on one id or an edge in each direction between two.
Cyclic(g) ==
  \E x, y \in StartIds : <<x, y>> \in Edges(g) /\ <<y, x>> \in Edges(g)

\* A malformed definition: a cyclic containment edge set, or no root.
Malformed(g) == Cyclic(g) \/ "cascade_lattice" \notin DOMAIN g

\* C24: construction fails fast on a malformed definition: when the
\* children/parent edge set has a cycle or the root is missing, the system
\* refuses to start and no navigation state is reached.
C24_MalformedDefinitionRefused ==
  Malformed(start_test.graph) => start_test.phase \notin {"mounted", "navigated"}

(***************************************************************************)
(* Properties of the stats poll (checked under SpecStats)                  *)
(***************************************************************************)

\* C25: a stats poll, whether it succeeds or raises, changes neither path
\* nor the current module nor the display mode, wherever it falls between
\* navigation intents; a failed poll puts the stats panel, and nothing
\* else, into its error state.
C25_PollLeavesNavigationAlone ==
  [][live_stats' # live_stats =>
       /\ _nav' = _nav
       /\ current_module' = current_module
       /\ scientist_mode' = scientist_mode
       /\ panels' = panels
       /\ error' = error
       /\ (live_stats'.error <=> LiveStatsWidget_render(live_stats') = "Error: {error}")]_vars

\* A poll has failed while the explorer stands two levels below the root in
\* expert mode.
C25_Witness ==
  /\ live_stats.has_stats
  /\ live_stats.error
  /\ LiveStatsWidget_render(live_stats) = "Error: {error}"
  /\ _nav.path = <<"cascade_lattice", "core", "adapter">>
  /\ scientist_mode

(***************************************************************************)
(* Properties of message delivery (checked under Spec)                     *)
(***************************************************************************)

\* Handlers of intents that reach the screen as key bindings.
KeyIntents == {"action_go_back", "action_go_home", "action_toggle_mode"}

\* A step that delivers a message an earlier handler posted, ModuleClicked
\* or NodeSelected, to the handler that applies it to NavState.
DeliversNavWork ==
  /\ Len(pending') < Len(pending)
  /\ handler' \in {"on_related_clicked", "on_tree_select"}

\* C26: each intent is fully processed before the next is accepted: no work
\* of an earlier intent (the ModuleClicked a related button posts, the tree
\* selection a related-click triggers) is applied to NavState after a later
\* intent has been handled.  Here: a delivery that follows the handling of
\* a later key intent leaves NavState as that intent left it.
C26_NoNavWorkAfterLaterIntent ==
  [][(DeliversNavWork /\ handler \in KeyIntents) => _nav' = _nav]_vars

C28_DerivationIsIdempotent ==
  [][handler' = "_update_view again" =>
       /\ panels' = panels
       /\ _nav' = _nav
       /\ scientist_mode' = scientist_mode
       /\ current_module' = current_module
       /\ graph' = graph]_vars

\* The view of hold has been derived twice in expert mode, over panels that
\* showed the root before.
C28_Witness ==
  /\ handler = "_update_view again"
  /\ current_module = "hold"
  /\ scientist_mode
  /\ _nav.path = <<"cascade_lattice", "hold">>
  /\ panels.doc_content = Get("hold").doc_scientist
  /\ panels.related_module_key = "hold"
  /\ panels.breadcrumb_path = _nav.path

(***************************************************************************)
(* Properties of the shipped graph (checked under SpecView)                *)
(***************************************************************************)

RECURSIVE ParentWalk(_, _, _)
\* The nodes met by following parent pointers in g from key on, after those
\* in `visited`, and how the walk ends: at a node without parent, at an id
\* that names no node, or at a node met before.
ParentWalk(g, key, visited) ==
  IF \E i \in DOMAIN visited : visited[i] = key
    THEN [visited |-> Append(visited, key), ends |-> "repeat"]
    ELSE IF key \notin DOMAIN g
      THEN [visited |-> Append(visited, key), ends |-> "dangling"]
      ELSE IF ~Truthy(g[key].parent)
        THEN [visited |-> Append(visited, key), ends |-> "no parent"]
        ELSE ParentWalk(g, g[key].parent, Append(visited, key))

\* C29: in the shipped graph the containment relation is acyclic and has a
\* single root: cascade_lattice is the one node without a parent, following
\* parent pointers from any node reaches it without meeting a node twice,
\* and the expansion of the children lists from the root terminates.
C29_ContainmentIsSingleRootedTree ==
  /\ {key \in DOMAIN graph : ~Truthy(graph[key].parent)} = {"cascade_lattice"}
  /\ \A key \in DOMAIN graph :
       LET walk == ParentWalk(graph, key, <<>>)
       IN  /\ walk.ends = "no parent"
           /\ walk.visited[Len(walk.visited)] = "cascade_lattice"
           /\ NoDuplicates(walk.visited)
  /\ ~_build_tree_in(graph).raised

\* The view is derived for hold.primitives, two parent pointers below the
\* root.
C29_Witness ==
  /\ handler = "_update_view"
  /\ current_module = "hold.primitives"
  /\ ParentWalk(graph, current_module, <<>>).visited
       = <<"hold.primitives", "hold", "cascade_lattice">>
  /\ ParentWalk(graph, "monitor", <<>>).visited = <<"monitor", "cascade_lattice">>

(***************************************************************************)
(* Agreement of the screen with the trail (checked under Spec)             *)
(***************************************************************************)

\* C30: after every handled intent (select, related-click, back, home,
\* toggle-mode) the screen's current_module is the last element of the
\* global NavState's path, and every panel is derived for that node: the
\* breadcrumb shows the path, the related and exports panels the node the
\* path ends at.
C30_CurrentModuleIsEndOfPath ==
  /\ current_module = _nav.path[Len(_nav.path)]
  /\ panels.breadcrumb_path = _nav.path
  /\ panels.related_module_key = _nav.path[Len(_nav.path)]
  /\ panels.exports_module_key = _nav.path[Len(_nav.path)]
  /\ panels.related_buttons = _rebuild_buttons(_nav.path[Len(_nav.path)])

\* go-back has left adapter for core: the screen and the panels are on
\* core, where the path now ends.
C30_Witness ==
  /\ handler = "action_go_back"
  /\ popped = "adapter"
  /\ _nav.path = <<"cascade_lattice", "core">>
  /\ current_module = "core"
  /\ panels.related_module_key = "core"

\* C31: after every completely handled intent the path held by the
\* breadcrumb widget equals NavState.path element for element, and the
\* entries the widget renders are the elements of NavState.path in order:
\* the breadcrumb shown is never stale.
C31_BreadcrumbNeverStale ==
  /\ Len(panels.breadcrumb_path) = Len(_nav.path)
  /\ \A i \in 1..Len(_nav.path) : panels.breadcrumb_path[i] = _nav.path[i]
  /\ LET shown == Entries(BreadcrumbWidget_render(panels.breadcrumb_path).text)
     IN  /\ Len(shown) = Len(_nav.path)
         /\ \A i \in 1..Len(shown) :
              shown[i].label = _nav.path[i]

\* Back from monitor, reached by a related click on adapter: the breadcrumb
\* widget holds the shortened path.
C31_Witness ==
  /\ handler = "action_go_back"
  /\ popped = "monitor"
  /\ _nav.path = <<"cascade_lattice", "adapter">>
  /\ panels.breadcrumb_path = <<"cascade_lattice", "adapter">>

(***************************************************************************)
(* Algebra of NavState (checked under SpecNav)                             *)
(***************************************************************************)

\* C32: jump_to is idempotent: for the path reached and every id x,
\* jump_to(x) applied twice gives the path jump_to(x) applied once gives,
\* and jump_to(current) leaves the path unchanged.
C32_JumpToIsIdempotent ==
  /\ \A x \in NavIds :
       LET once == jump_to(nav, x)
           twice == jump_to(once.self, x)
       IN  /\ ~once.raised /\ ~twice.raised
           /\ twice.self.path = once.self.path
  /\ jump_to(nav, current(nav)).self.path = nav.path

\* jump_to(hold) called on a path that already ended with hold, itself
\* left by a jump_to: the second application changed nothing.
C32_Witness ==
  /\ call = [op |-> "jump_to", arg |-> "hold"]
  /\ before.path = <<"cascade_lattice", "core", "hold">>
  /\ nav.path = before.path

\* C34: jump_to followed by pop is a round trip for a new destination: for
\* the path p reached and every id x not in p, jump_to(x) then pop() returns
\* x and restores the path to exactly p.
C34_JumpToThenPopRoundTrip ==
  \A x \in NavIds :
    ~Contains(nav.path, x) =>
      LET jumped == jump_to(nav, x)
          back == pop(jumped.self)
      IN  /\ ~jumped.raised /\ ~back.raised
          /\ jumped.self.path = Append(nav.path, x)
          /\ back.ret = x
          /\ back.self.path = nav.path

\* pop has returned event, which was not in the path <<root, core>> that
\* pop restored.
C34_Witness ==
  /\ call.op = "pop"
  /\ ret = "event"
  /\ before.path = <<"cascade_lattice", "core", "event">>
  /\ nav.path = <<"cascade_lattice", "core">>

\* C35: push(x) and jump_to(x) yield the same path when x is not in the
\* path or is its last element; when x occurs before the last position they
\* yield different paths: push keeps the path, jump_to truncates it after x.
C35_PushAndJumpToAgreeOnNewOrCurrent ==
  \A x \in NavIds :
    LET p == nav.path
        pushed == push(nav, x).self.path
        jumped == jump_to(nav, x).self.path
    IN  /\ (~Contains(p, x) \/ x = p[Len(p)]) => pushed = jumped
        /\ (\E i \in 1..(Len(p) - 1) : p[i] = x) =>
             /\ pushed # jumped
             /\ pushed = p
             /\ Len(jumped) < Len(p)
             /\ jumped[Len(jumped)] = x
             /\ \A i \in 1..Len(jumped) : jumped[i] = p[i]

\* push(core) was refused on <<root, core, hold>>, where jump_to(core) would
\* truncate to <<root, core>>.
C35_Witness ==
  /\ call = [op |-> "push", arg |-> "core"]
  /\ nav.path = <<"cascade_lattice", "core", "hold">>
  /\ before.path = nav.path
  /\ jump_to(nav, "core").self.path = <<"cascade_lattice", "core">>

(***************************************************************************)
(* Going back repeatedly (checked under Spec)                              *)
(***************************************************************************)

\* The NavState left by k successive calls of pop.
RECURSIVE PopTimes(_, _)
PopTimes(self, k) == IF k = 0 THEN self ELSE PopTimes(pop(self).self, k - 1)

\* C33: back never loops.  Every go-back intent on a path of length n > 1
\* removes exactly the last element; from every reachable path of length n,
\* k <= n-1 go-backs leave the first n-k elements, n-1 of them leave the
\* single-element path [root], and every further go-back changes nothing.
C33_BackShortensToRootThenStops ==
  /\ [](LET n == Len(_nav.path)
        IN  /\ \A k \in 0..(n - 1) :
                 PopTimes(_nav, k).path = SubSeq(_nav.path, 1, n - k)
            /\ PopTimes(_nav, n - 1).path = <<"cascade_lattice">>
            /\ \A k \in n..(n + 2) :
                 /\ PopTimes(_nav, k).path = <<"cascade_lattice">>
                 /\ pop(PopTimes(_nav, k)).ret = None)
  /\ [][handler' = "action_go_back" =>
         LET n == Len(_nav.path)
         IN  /\ error' = FALSE
             /\ IF n > 1
                  THEN /\ _nav'.path = SubSeq(_nav.path, 1, n - 1)
                       /\ popped' = _nav.path[n]
                       /\ current_module' = _nav.path[n - 1]
                  ELSE /\ _nav'.path = _nav.path
                       /\ popped' = None
                       /\ current_module' = current_module]_vars

\* The go-back that removed hold has reached the single-element path.
C33_Witness ==
  /\ handler = "action_go_back"
  /\ popped = "hold"
  /\ _nav.path = <<"cascade_lattice">>
  /\ current_module = "cascade_lattice"

(***************************************************************************)
(* Reachability of the shipped nodes (checked under SpecReach)             *)
(***************************************************************************)

\* The modules one select or related-click intent can make current while m
\* is current.
Offered(m) ==
  {key \in TreeData(_build_tree) : Truthy(key)}
    \cup {key \in Tooltips(_rebuild_buttons(m)) : Truthy(key) /\ key \in DOMAIN MODULE_GRAPH}

\* C36: every node of the shipped graph can become the current node by a
\* finite sequence of select and related-click intents from the initial
\* state.  On trails: a trail that has shown every module any of its shown
\* modules offers (no intent leads anywhere new) has shown every node of the
\* graph.
C36_EveryNodeCanBecomeCurrent ==
  (\A m \in reach_test.visited : Offered(m) \subseteq reach_test.visited) =>
    DOMAIN MODULE_GRAPH \subseteq reach_test.visited

(***************************************************************************)
(* Parent pointers and children lists (checked under SpecView)             *)
(***************************************************************************)

\* C37: in the shipped graph the parent pointers and the children lists
\* describe the same relation: every node n with parent p is listed in p's
\* children, and every resolvable child c listed in p's children has parent
\* p.
C37_ParentsAndChildrenAgree ==
  /\ \A n \in DOMAIN graph :
       Truthy(graph[n].parent) =>
         /\ graph[n].parent \in DOMAIN graph
         /\ Contains(graph[graph[n].parent].children, n)
  /\ \A p \in DOMAIN graph :
       \A i \in 1..Len(graph[p].children) :
         LET c == graph[p].children[i]
         IN  c \in DOMAIN graph => graph[c].parent = p

====
